---- MODULE Spec2Model ----
(***************************************************************************)
(* chart_engine.build_chart (src/chart_engine/__init__.py): validation of  *)
(* the payload, the Julian Day conversion, the 13 body lookups, the house  *)
(* angles and the assembly of the result, as a step machine over the       *)
(* ephemeris provider (swisseph).                                          *)
(*                                                                         *)
(* Numbers: Python floats are modelled as integers in tenths of a degree   *)
(* (latitude 90.0 is 900); NaN and the infinities are separate kinds.      *)
(* Strings that the code inspects character by character are sequences of  *)
(* one-character strings.  payload['name'] is copied to the result without  *)
(* being read and is left out.                                             *)
(***************************************************************************)
EXTENDS Integers, Sequences, FiniteSets, TLC

(***************************************************************************)
(* Raw payload values.  Every raw value is a record of one shape:          *)
(*   t : the Python type ("missing" when the key is absent),               *)
(*   n : the number of an int/float (tenths),  k : "fin" | "nan" | "inf" | *)
(*   "-inf" for a float,  s : the characters of a str,                     *)
(*   d : the fields of a datetime instance.                                *)
(***************************************************************************)
NoDate == [year |-> 0, month |-> 0, day |-> 0, hour |-> 0, minute |-> 0,
           second |-> 0, microsecond |-> 0, aware |-> FALSE, utcoffset |-> 0]

Raw(t, n, k, s, d) == [t |-> t, n |-> n, k |-> k, s |-> s, d |-> d]

Missing == Raw("missing", 0, "fin", <<>>, NoDate)

PyNone == Raw("NoneType", 0, "fin", <<>>, NoDate)

PyStr(s) == Raw("str", 0, "fin", s, NoDate)

PyInt(n) == Raw("int", n * 10, "fin", <<>>, NoDate)

PyFloat(tenths) == Raw("float", tenths, "fin", <<>>, NoDate)

PyFloatKind(k) == Raw("float", 0, k, <<>>, NoDate)

PyDatetime(d) == Raw("datetime", 0, "fin", <<>>, d)

\* dict.get(key, default): the default when the key is absent
Get(payload, key, default) ==
    IF payload[key].t = "missing" THEN default ELSE payload[key]

(***************************************************************************)
(* datetime.fromisoformat, as _parse_datetime uses it.                     *)
(***************************************************************************)
DigitChars == {"0", "1", "2", "3", "4", "5", "6", "7", "8", "9"}

DigitOf(c) ==
    CASE c = "0" -> 0 [] c = "1" -> 1 [] c = "2" -> 2 [] c = "3" -> 3
      [] c = "4" -> 4 [] c = "5" -> 5 [] c = "6" -> 6 [] c = "7" -> 7
      [] c = "8" -> 8 [] c = "9" -> 9

IsDigits(s) == Len(s) > 0 /\ \A i \in 1..Len(s) : s[i] \in DigitChars

RECURSIVE ToInt(_)
ToInt(s) ==
    IF s = <<>> THEN 0
    ELSE 10 * ToInt(SubSeq(s, 1, Len(s) - 1)) + DigitOf(s[Len(s)])

\* str.find(c) + 1: the 1-based position of the first c, 0 when absent
Find(s, c) ==
    IF \E i \in 1..Len(s) : s[i] = c
    THEN CHOOSE i \in 1..Len(s) : s[i] = c /\ \A j \in 1..(i - 1) : s[j] # c
    ELSE 0

IsLeap(y) == (y % 4 = 0) /\ ((y % 100 # 0) \/ (y % 400 = 0))

DaysInMonth(y, m) ==
    IF m = 2 THEN (IF IsLeap(y) THEN 29 ELSE 28)
    ELSE IF m \in {4, 6, 9, 11} THEN 30 ELSE 31

BadTime == [ok |-> FALSE, hour |-> 0, minute |-> 0, second |-> 0, microsecond |-> 0]

OkTime(h, m, s, us) ==
    [ok |-> TRUE, hour |-> h, minute |-> m, second |-> s, microsecond |-> us]

\* HH[:MM[:SS[.fff[fff]]]]
ParseHhMmSsFf(t) ==
    LET L == Len(t)
        h == ToInt(SubSeq(t, 1, 2))
        m == ToInt(SubSeq(t, 4, 5))
        s == ToInt(SubSeq(t, 7, 8))
        f == SubSeq(t, 10, L)
    IN  IF L < 2 \/ ~IsDigits(SubSeq(t, 1, 2)) THEN BadTime
        ELSE IF L = 2 THEN OkTime(h, 0, 0, 0)
        ELSE IF t[3] # ":" THEN BadTime
        ELSE IF L < 5 \/ ~IsDigits(SubSeq(t, 4, 5)) THEN BadTime
        ELSE IF L = 5 THEN OkTime(h, m, 0, 0)
        ELSE IF t[6] # ":" THEN BadTime
        ELSE IF L < 8 \/ ~IsDigits(SubSeq(t, 7, 8)) THEN BadTime
        ELSE IF L = 8 THEN OkTime(h, m, s, 0)
        ELSE IF t[9] # "." THEN BadTime
        ELSE IF (L - 9) \notin {3, 6} \/ ~IsDigits(f) THEN BadTime
        ELSE OkTime(h, m, s, IF L - 9 = 3 THEN ToInt(f) * 1000 ELSE ToInt(f))

BadParse == [ok |-> FALSE, d |-> NoDate]

\* YYYY-MM-DD[*HH[:MM[:SS[.fff[fff]]]][(+|-)HH:MM[:SS[.ffffff]]]]
FromIsoFormat(str) ==
    LET L     == Len(str)
        y     == ToInt(SubSeq(str, 1, 4))
        mo    == ToInt(SubSeq(str, 6, 7))
        dd    == ToInt(SubSeq(str, 9, 10))
        tstr  == SubSeq(str, 12, L)
        minus == Find(tstr, "-")
        tzpos == IF minus > 0 THEN minus ELSE Find(tstr, "+")
        tmstr == IF tzpos > 0 THEN SubSeq(tstr, 1, tzpos - 1) ELSE tstr
        tzstr == IF tzpos > 0 THEN SubSeq(tstr, tzpos + 1, Len(tstr)) ELSE <<>>
        tm    == ParseHhMmSsFf(tmstr)
        tz    == ParseHhMmSsFf(tzstr)
        tzsec == tz.hour * 3600 + tz.minute * 60 + tz.second
        sign  == IF tzpos > 0 /\ tstr[tzpos] = "-" THEN -1 ELSE 1
    IN  IF L < 10 THEN BadParse
        ELSE IF ~IsDigits(SubSeq(str, 1, 4)) \/ str[5] # "-"
                \/ ~IsDigits(SubSeq(str, 6, 7)) \/ str[8] # "-"
                \/ ~IsDigits(SubSeq(str, 9, 10)) THEN BadParse
        ELSE IF y < 1 \/ mo < 1 \/ mo > 12 THEN BadParse
        ELSE IF dd < 1 \/ dd > DaysInMonth(y, mo) THEN BadParse
        ELSE IF tstr = <<>>
             THEN [ok |-> TRUE,
                   d |-> [NoDate EXCEPT !.year = y, !.month = mo, !.day = dd]]
        ELSE IF ~tm.ok \/ tm.hour > 23 \/ tm.minute > 59 \/ tm.second > 59
             THEN BadParse
        ELSE IF tzpos > 0 /\ (Len(tzstr) \notin {5, 8, 15} \/ ~tz.ok
                              \/ tz.minute > 59 \/ tz.second > 59
                              \/ tzsec >= 86400)
             THEN BadParse
        ELSE [ok |-> TRUE,
              d |-> [year |-> y, month |-> mo, day |-> dd, hour |-> tm.hour,
                     minute |-> tm.minute, second |-> tm.second,
                     microsecond |-> tm.microsecond, aware |-> tzpos > 0,
                     utcoffset |-> sign * tzsec]]

(***************************************************************************)
(* Exceptions.  A message is the f-string's pieces in order: its literal   *)
(* text, the strings interpolated into it, and "{}" where a raw payload    *)
(* value is formatted in (that value is in args).  cause is the message of *)
(* the exception it was raised from.                                       *)
(***************************************************************************)
NoError == [exc |-> "", parts |-> <<>>, args |-> <<>>, cause |-> ""]

ValueError(parts, args, cause) ==
    [exc |-> "ValueError", parts |-> parts, args |-> args, cause |-> cause]

RuntimeError(parts, cause) ==
    [exc |-> "RuntimeError", parts |-> parts, args |-> <<>>, cause |-> cause]

(***************************************************************************)
(* _parse_datetime                                                         *)
(***************************************************************************)
EndsWithZ(s) == Len(s) > 0 /\ s[Len(s)] = "Z"

StripZ(s) == IF EndsWithZ(s) THEN SubSeq(s, 1, Len(s) - 1) ELSE s

\* variant: an input that is neither str nor datetime falls through and the
\* function returns without a value instead of raising
ParseDatetimeFallThrough(dt_input) ==
    IF dt_input.t = "str"
    THEN LET p == FromIsoFormat(StripZ(dt_input.s))
         IN  IF p.ok
             THEN [ok |-> TRUE, d |-> p.d, error |-> NoError]
             ELSE [ok |-> FALSE, d |-> NoDate,
                   error |-> ValueError(<<"Invalid ", "datetime_utc", ": '", "{}",
                                          "'. Use 'YYYY-MM-DDTHH:MM:SSZ'.">>,
                                        <<dt_input>>, "Invalid isoformat string")]
    ELSE [ok |-> TRUE, d |-> dt_input.d, error |-> NoError]

\* [ok, d, error]: the naive/aware datetime returned, or the ValueError raised
ParseDatetime(dt_input) ==
    IF dt_input.t = "str"
    THEN LET p == FromIsoFormat(StripZ(dt_input.s))
         IN  IF p.ok
             THEN [ok |-> TRUE, d |-> p.d, error |-> NoError]
             ELSE [ok |-> FALSE, d |-> NoDate,
                   error |-> ValueError(<<"Invalid ", "datetime_utc", ": '", "{}",
                                          "'. Use 'YYYY-MM-DDTHH:MM:SSZ'.">>,
                                        <<dt_input>>, "Invalid isoformat string")]
    ELSE IF dt_input.t = "datetime"
    THEN [ok |-> TRUE, d |-> dt_input.d, error |-> NoError]
    ELSE [ok |-> FALSE, d |-> NoDate,
          error |-> ValueError(<<"datetime_utc",
                                 " must be an ISO8601 string ending in 'Z' or a datetime instance.">>,
                               <<>>, "")]

(***************************************************************************)
(* float(x) and the range checks of build_chart                            *)
(***************************************************************************)
NoFloat == [ok |-> FALSE, k |-> "fin", n |-> 0]

Finite(n) == [ok |-> TRUE, k |-> "fin", n |-> n]

\* float(str): nan, inf, -inf, or [+|-]digits[.digits]; the fraction is kept
\* to the model's resolution of one decimal
StrToFloat(s) ==
    LET neg  == Len(s) > 0 /\ s[1] = "-"
        body == IF Len(s) > 0 /\ s[1] \in {"-", "+"} THEN SubSeq(s, 2, Len(s)) ELSE s
        dot  == Find(body, ".")
        ip   == IF dot > 0 THEN SubSeq(body, 1, dot - 1) ELSE body
        fp   == IF dot > 0 THEN SubSeq(body, dot + 1, Len(body)) ELSE <<>>
        mag  == ToInt(ip) * 10 + (IF fp = <<>> THEN 0 ELSE DigitOf(fp[1]))
    IN  IF body = <<"n", "a", "n">> THEN [ok |-> TRUE, k |-> "nan", n |-> 0]
        ELSE IF body = <<"i", "n", "f">>
             THEN [ok |-> TRUE, k |-> IF neg THEN "-inf" ELSE "inf", n |-> 0]
        ELSE IF ~IsDigits(ip) \/ (dot > 0 /\ ~IsDigits(fp)) THEN NoFloat
        ELSE Finite(IF neg THEN 0 - mag ELSE mag)

\* float(x): ok = FALSE when float() raises (TypeError or ValueError)
ToFloat(x) ==
    IF x.t = "float" THEN [ok |-> TRUE, k |-> x.k, n |-> x.n]
    ELSE IF x.t = "int" THEN Finite(x.n)
    ELSE IF x.t = "str" THEN StrToFloat(x.s)
    ELSE NoFloat

\* a <= b on floats: every comparison with NaN is false
FloatLe(a, b) ==
    /\ a.k # "nan" /\ b.k # "nan"
    /\ \/ a.k = "-inf"
       \/ b.k = "inf"
       \/ a.k = "fin" /\ b.k = "fin" /\ a.n <= b.n

\* variant: the bounds excluded, -90.0 < lat < 90.0
LatitudeInRangeExclusive(lat) ==
    /\ FloatLe(Finite(-900), lat) /\ FloatLe(lat, Finite(900))
    /\ lat.n # -900 /\ lat.n # 900

\* -90.0 <= lat <= 90.0
LatitudeInRange(lat) == FloatLe(Finite(-900), lat) /\ FloatLe(lat, Finite(900))

\* -180.0 <= lon <= 180.0
LongitudeInRange(lon) == FloatLe(Finite(-1800), lon) /\ FloatLe(lon, Finite(1800))

LatitudeError(payload) ==
    ValueError(<<"Latitude", " must be between -90 and 90. Got: ", "{}", ".">>,
               <<Get(payload, "latitude", PyNone)>>, "")

LongitudeError(payload) ==
    ValueError(<<"Longitude", " must be between -180 and 180. Got: ", "{}", ".">>,
               <<Get(payload, "longitude", PyNone)>>, "")

(***************************************************************************)
(* The ephemeris provider (swisseph).  Its answers are a function of its   *)
(* arguments and of the ephemeris data it was initialised with (ephe);     *)
(* whether a call raises, and which of its return shapes calc_ut uses, is  *)
(* chosen call by call in the actions.                                     *)
(***************************************************************************)
MaxEphe == 2

ProviderMessages == {"ephemeris file not found", "jd out of range"}

NoJd == [day |-> 0, sec |-> 0]

\* swe.julday(year, month, day, hour), Gregorian calendar.  The hour
\* argument is carried in seconds (hour * 3600); the Julian Day is the pair
\* (day, sec) standing for day + sec / 86400.
julday(year, month, day, hourSecs) ==
    LET a   == (14 - month) \div 12
        y   == year + 4800 - a
        m   == month + 12 * a - 3
        jdn == day + (153 * m + 2) \div 5 + 365 * y + y \div 4 - y \div 100
               + y \div 400 - 32045
    IN  IF hourSecs >= 43200
        THEN [day |-> jdn, sec |-> hourSecs - 43200]
        ELSE [day |-> jdn - 1, sec |-> hourSecs + 43200]

\* swe.SUN .. swe.CHIRON
SweCode(code) ==
    CASE code = "SUN" -> 0 [] code = "MOON" -> 1 [] code = "MERCURY" -> 2
      [] code = "VENUS" -> 3 [] code = "MARS" -> 4 [] code = "JUPITER" -> 5
      [] code = "SATURN" -> 6 [] code = "URANUS" -> 7 [] code = "NEPTUNE" -> 8
      [] code = "PLUTO" -> 9 [] code = "MEAN_NODE" -> 10
      [] code = "MEAN_APOG" -> 12 [] code = "CHIRON" -> 15

\* swe.get_planet_name(code)
get_planet_name(code) ==
    CASE code = "SUN" -> "Sun" [] code = "MOON" -> "Moon"
      [] code = "MERCURY" -> "Mercury" [] code = "VENUS" -> "Venus"
      [] code = "MARS" -> "Mars" [] code = "JUPITER" -> "Jupiter"
      [] code = "SATURN" -> "Saturn" [] code = "URANUS" -> "Uranus"
      [] code = "NEPTUNE" -> "Neptune" [] code = "PLUTO" -> "Pluto"
      [] code = "CHIRON" -> "Chiron" [] code = "MEAN_NODE" -> "mean Node"
      [] code = "MEAN_APOG" -> "mean Apogee"

\* the six values swisseph computes for a body: longitude, latitude,
\* distance, speed in longitude, speed in latitude, speed in distance
Position(e, jdv, code) ==
    LET c == SweCode(code)
    IN  << (c * 277 + jdv.day * 7 + jdv.sec \div 60 + e * 451) % 3600,
           ((c * 13 + e) % 100) - 50,
           10 + c * 7,
           (((c + e + jdv.day) % 3) - 1) * 5,
           1000 + c,
           2000 + c >>

\* The shapes in which calc_ut hands the values back.  A result is the
\* Python tuple `values` itself, or, when wrapped, the pair (values, flag).
Shapes == {"direct4", "direct5", "wrapped4", "wrapped6"}

NoResult == [wrapped |-> FALSE, values |-> <<>>, flag |-> 0]

calc_ut(e, jdv, code, shape) ==
    LET p == Position(e, jdv, code)
    IN  CASE shape = "direct4" ->
               [wrapped |-> FALSE, values |-> SubSeq(p, 1, 4), flag |-> 0]
          [] shape = "direct5" ->
               [wrapped |-> FALSE, values |-> <<258>> \o SubSeq(p, 1, 4), flag |-> 0]
          [] shape = "wrapped4" ->
               [wrapped |-> TRUE, values |-> SubSeq(p, 1, 4), flag |-> 258]
          [] shape = "wrapped6" ->
               [wrapped |-> TRUE, values |-> p, flag |-> 258]

\* ascmc[0] and ascmc[1] as houses_ex may return them
AscValues == {0, 123, 1799, 1800, 2705, 3599}

McValues == {0, 900, 1800, 3455}

(***************************************************************************)
(* build_chart: the body list, the unpacking of a calc_ut result, the      *)
(* placements dict (insertion ordered) and the angles.                     *)
(***************************************************************************)
\* variant: Chiron left out of the list
bodiesWithoutChiron ==
    << "SUN", "MOON", "MERCURY", "VENUS", "MARS", "JUPITER", "SATURN",
       "URANUS", "NEPTUNE", "PLUTO", "MEAN_NODE", "MEAN_APOG" >>

bodies ==
    << "SUN", "MOON", "MERCURY", "VENUS", "MARS", "JUPITER", "SATURN",
       "URANUS", "NEPTUNE", "PLUTO", "CHIRON", "MEAN_NODE", "MEAN_APOG" >>

\* len(result)
TupleLen(result) == IF result.wrapped THEN 2 ELSE Len(result.values)

\* variant: the last four values taken in both branches
UnpackLastFour(result) ==
    LET r == result.values
        L == Len(r)
    IN  << r[L - 3], r[L - 2], r[L - 1], r[L] >>

\* (lon_deg, lat_deg, dist, speed)
Unpack(result) ==
    IF TupleLen(result) = 2
    THEN LET data == result.values
         IN  << data[1], data[2], data[3], data[4] >>
    ELSE LET r == result.values
             L == Len(r)
         IN  << r[L - 3], r[L - 2], r[L - 1], r[L] >>

\* variant: a stationary body counted as retrograde
RetrogradeOrStationary(speed) == speed <= 0

\* speed < 0
Retrograde(speed) == speed < 0

BodyPlacement(u) ==
    [longitude |-> u[1], latitude |-> u[2], distance_au |-> u[3],
     speed |-> u[4], retrograde |-> Retrograde(u[4])]

AnglePlacement(angle) ==
    [longitude |-> angle, latitude |-> 0, distance_au |-> 0, speed |-> 0,
     retrograde |-> FALSE]

\* d[key] = val on an insertion-ordered dict, kept as a sequence of entries
DictSet(d, key, val) ==
    IF \E j \in 1..Len(d) : d[j].key = key
    THEN [j \in 1..Len(d) |-> IF d[j].key = key THEN [key |-> key, val |-> val]
                                               ELSE d[j]]
    ELSE Append(d, [key |-> key, val |-> val])

Keys(d) == [j \in 1..Len(d) |-> d[j].key]

Lookup(d, key) == d[CHOOSE j \in 1..Len(d) : d[j].key = key].val

\* variant: the opposite point not reduced modulo 360
OppositeUnreduced(angle) == angle + 1800

\* (angle + 180.0) % 360.0
Opposite(angle) == (angle + 1800) % 3600

\* the angles dict and the loop that stores it into placements
WithAngles(d, asc, mc) ==
    LET d1 == DictSet(d, "Ascendant", AnglePlacement(asc))
        d2 == DictSet(d1, "Midheaven", AnglePlacement(mc))
        d3 == DictSet(d2, "Descendant", AnglePlacement(Opposite(asc)))
    IN  DictSet(d3, "IC", AnglePlacement(Opposite(mc)))

DigitChar(n) ==
    CASE n = 0 -> "0" [] n = 1 -> "1" [] n = 2 -> "2" [] n = 3 -> "3"
      [] n = 4 -> "4" [] n = 5 -> "5" [] n = 6 -> "6" [] n = 7 -> "7"
      [] n = 8 -> "8" [] n = 9 -> "9"

Pad2(n) == << DigitChar(n \div 10), DigitChar(n % 10) >>

RECURSIVE Decimal(_)
Decimal(n) == IF n < 10 THEN << DigitChar(n) >>
              ELSE Append(Decimal(n \div 10), DigitChar(n % 10))

\* dt.strftime('%Y-%m-%dT%H:%M:%SZ')
Strftime(d) ==
    Decimal(d.year) \o <<"-">> \o Pad2(d.month) \o <<"-">> \o Pad2(d.day)
    \o <<"T">> \o Pad2(d.hour) \o <<":">> \o Pad2(d.minute) \o <<":">>
    \o Pad2(d.second) \o <<"Z">>

NoReturn ==
    [datetime_utc |-> <<>>, latitude |-> NoFloat, longitude |-> NoFloat,
     julian_day |-> NoJd, placements |-> <<>>]

(***************************************************************************)
(* Payloads                                                                *)
(***************************************************************************)
Date20240320 == <<"2", "0", "2", "4", "-", "0", "3", "-", "2", "0">>

Time030600 == <<"T", "0", "3", ":", "0", "6", ":", "0", "0">>

DatetimeInputs ==
    { Missing,
      PyNone,
      PyInt(12345),
      PyDatetime([NoDate EXCEPT !.year = 1999, !.month = 12, !.day = 31,
                                !.hour = 23, !.minute = 59, !.second = 59]),
      PyStr(Date20240320 \o Time030600 \o <<"Z">>),
      PyStr(Date20240320 \o Time030600 \o <<".", "5", "0", "0", "Z">>),
      PyStr(Date20240320 \o Time030600),
      PyStr(Date20240320 \o Time030600 \o <<"+", "0", "5", ":", "0", "0">>),
      PyStr(Date20240320),
      PyStr(<<>>),
      PyStr(<<"n", "o", "t", "-", "a", "-", "d", "a", "t", "e">>),
      PyStr(<<"2", "0", "2", "4", "-", "1", "3", "-", "2", "0">> \o Time030600 \o <<"Z">>),
      PyStr(<<"2", "0", "2", "3", "-", "0", "2", "-", "2", "9">> \o Time030600 \o <<"Z">>),
      PyStr(Date20240320 \o <<"T", "2", "4", ":", "0", "0", ":", "0", "0", "Z">>) }

LatitudeInputs ==
    { Missing, PyNone, PyFloat(-901), PyFloat(-900), PyFloat(455), PyFloat(900),
      PyFloat(901), PyInt(91), PyFloatKind("nan"), PyFloatKind("inf"),
      PyStr(<<"4", "5">>), PyStr(<<"a", "b", "c">>) }

LongitudeInputs ==
    { Missing, PyFloat(-1801), PyFloat(-1800), PyFloat(0), PyFloat(1800),
      PyFloat(1801), PyInt(-181), PyFloatKind("nan"), PyFloatKind("-inf"),
      PyStr(<<"-", "7", "3", ".", "9">>), PyStr(<<"e", "a", "s", "t">>) }

(***************************************************************************)
(* One call of build_chart.                                                *)
(*   payload      the argument                                             *)
(*   ephe         the ephemeris data the provider reads                    *)
(*   pc           the statement the call is at, "returned" or "raised"     *)
(*   dt, lat, lon, jd, i, result, placements, ascmc   the locals (i is the *)
(*                position of the for loop in bodies)                      *)
(*   calls        the provider calls made so far                           *)
(*   e            the exception the provider raised, if it did             *)
(*   raised       the exception build_chart ended with                     *)
(*   returned     the dict build_chart returned                            *)
(***************************************************************************)
VARIABLES payload, ephe, pc, dt, lat, lon, jd, i, result, placements, ascmc,
          calls, e, raised, returned

vars == << payload, ephe, pc, dt, lat, lon, jd, i, result, placements, ascmc,
           calls, e, raised, returned >>

NoFailure == [fn |-> "", code |-> "", msg |-> ""]

Call(fn, args, jdv, code) == [fn |-> fn, args |-> args, jd |-> jdv, code |-> code]

Init ==
    /\ payload \in [datetime_utc : DatetimeInputs, latitude : LatitudeInputs,
                    longitude : LongitudeInputs]
    /\ ephe \in 0..MaxEphe
    /\ pc = "parse_datetime"
    /\ dt = NoDate
    /\ lat = NoFloat
    /\ lon = NoFloat
    /\ jd = NoJd
    /\ i = 0
    /\ result = NoResult
    /\ placements = <<>>
    /\ ascmc = <<>>
    /\ calls = <<>>
    /\ e = NoFailure
    /\ raised = NoError
    /\ returned = NoReturn

\* dt = _parse_datetime(payload.get('datetime_utc', ''))
ParseDatetimeStep ==
    /\ pc = "parse_datetime"
    /\ LET r == ParseDatetime(Get(payload, "datetime_utc", PyStr(<<>>)))
       IN  IF r.ok
           THEN /\ dt' = r.d
                /\ pc' = "latitude"
                /\ UNCHANGED raised
           ELSE /\ raised' = r.error
                /\ pc' = "raised"
                /\ UNCHANGED dt
    /\ UNCHANGED << payload, ephe, lat, lon, jd, i, result, placements, ascmc,
                    calls, e, returned >>

\* lat = float(payload.get('latitude')), range check
ValidateLatitude ==
    /\ pc = "latitude"
    /\ LET f == ToFloat(Get(payload, "latitude", PyNone))
       IN  IF f.ok /\ LatitudeInRange(f)
           THEN /\ lat' = f
                /\ pc' = "longitude"
                /\ UNCHANGED raised
           ELSE /\ raised' = LatitudeError(payload)
                /\ pc' = "raised"
                /\ UNCHANGED lat
    /\ UNCHANGED << payload, ephe, dt, lon, jd, i, result, placements, ascmc,
                    calls, e, returned >>

\* lon = float(payload.get('longitude')), range check
ValidateLongitude ==
    /\ pc = "longitude"
    /\ LET f == ToFloat(Get(payload, "longitude", PyNone))
       IN  IF f.ok /\ LongitudeInRange(f)
           THEN /\ lon' = f
                /\ pc' = "julday"
                /\ UNCHANGED raised
           ELSE /\ raised' = LongitudeError(payload)
                /\ pc' = "raised"
                /\ UNCHANGED lon
    /\ UNCHANGED << payload, ephe, dt, lat, jd, i, result, placements, ascmc,
                    calls, e, returned >>

JulianDayError(msg) ==
    RuntimeError(<<"Failed to compute ", "Julian Day", ": ", msg>>, msg)

\* dt.hour + dt.minute/60 + dt.second/3600, in seconds
FractionalHour(d) == d.hour * 3600 + d.minute * 60 + d.second

\* jd = swe.julday(...)
JulianDay ==
    /\ pc = "julday"
    /\ calls' = Append(calls, Call("julday",
                                   <<dt.year, dt.month, dt.day, FractionalHour(dt)>>,
                                   NoJd, ""))
    /\ \/ \E msg \in ProviderMessages :
            /\ e' = [fn |-> "julday", code |-> "", msg |-> msg]
            /\ raised' = JulianDayError(msg)
            /\ pc' = "raised"
            /\ UNCHANGED << jd, i >>
       \/ /\ jd' = julday(dt.year, dt.month, dt.day, FractionalHour(dt))
          /\ i' = 1
          /\ pc' = "bodies"
          /\ UNCHANGED << e, raised >>
    /\ UNCHANGED << payload, ephe, dt, lat, lon, result, placements, ascmc,
                    returned >>

\* variant: the message does not carry the body's name
CalcErrorUnnamed(name, msg) ==
    RuntimeError(<<"Failed to calculate ", "body", ": ", msg>>, msg)

\* RuntimeError(f"Failed to calculate {name}: {e}") from e
CalcError(name, msg) ==
    RuntimeError(<<"Failed to calculate ", name, ": ", msg>>, msg)

\* variant: the loop steps over every other body
NextIndexSkipping(k) == k + 2

\* the for loop moving to the next element of bodies
NextIndex(k) == k + 1

\* one iteration of `for code in bodies`
CalcBody ==
    /\ pc = "bodies"
    /\ i <= Len(bodies)
    /\ LET code == bodies[i]
           c1   == Call("calc_ut", <<>>, jd, code)
           c2   == Call("get_planet_name", <<>>, NoJd, code)
       IN  /\ calls' = calls \o <<c1, c2>>
           /\ \/ \E msg \in ProviderMessages :
                   /\ e' = [fn |-> "calc_ut", code |-> code, msg |-> msg]
                   /\ raised' = CalcError(get_planet_name(code), msg)
                   /\ pc' = "raised"
                   /\ UNCHANGED << i, result, placements >>
              \/ \E shape \in Shapes :
                   /\ result' = calc_ut(ephe, jd, code, shape)
                   /\ placements' = DictSet(placements, get_planet_name(code),
                                            BodyPlacement(Unpack(result')))
                   /\ i' = NextIndex(i)
                   /\ pc' = IF NextIndex(i) > Len(bodies) THEN "houses" ELSE "bodies"
                   /\ UNCHANGED << e, raised >>
    /\ UNCHANGED << payload, ephe, dt, lat, lon, jd, ascmc, returned >>

HousesError(msg) ==
    RuntimeError(<<"Failed to compute ", "houses/angles", ": ", msg>>, msg)

\* swe.houses_ex(jd, lat, lon, b'P'), the angles, and the return
Houses ==
    /\ pc = "houses"
    /\ calls' = Append(calls, Call("houses_ex", <<lat.n, lon.n>>, jd, "P"))
    /\ \/ \E msg \in ProviderMessages :
            /\ e' = [fn |-> "houses_ex", code |-> "", msg |-> msg]
            /\ raised' = HousesError(msg)
            /\ pc' = "raised"
            /\ UNCHANGED << ascmc, placements, returned >>
       \/ \E asc \in AscValues, mc \in McValues :
            /\ ascmc' = <<asc, mc>>
            /\ placements' = WithAngles(placements, asc, mc)
            /\ returned' = [datetime_utc |-> Strftime(dt), latitude |-> lat,
                            longitude |-> lon, julian_day |-> jd,
                            placements |-> placements']
            /\ pc' = "returned"
            /\ UNCHANGED << e, raised >>
    /\ UNCHANGED << payload, ephe, dt, lat, lon, jd, i, result >>

Next ==
    \/ ParseDatetimeStep
    \/ ValidateLatitude
    \/ ValidateLongitude
    \/ JulianDay
    \/ CalcBody
    \/ Houses

Spec == Init /\ [][Next]_vars

(***************************************************************************)
(* Vocabulary of the properties                                            *)
(***************************************************************************)
Fields == {"datetime_utc", "latitude", "longitude"}

Lower(w) ==
    CASE w = "Latitude" -> "latitude" [] w = "Longitude" -> "longitude"
      [] OTHER -> w

InParts(err, w) == \E j \in 1..Len(err.parts) : err.parts[j] = w

\* the message names the field
NamesField(err, f) == \E j \in 1..Len(err.parts) : Lower(err.parts[j]) = f

\* the message has the raw value formatted into it
Echoes(err, raw) == InParts(err, "{}") /\ err.args = <<raw>>

\* the value the code read for a field
RawValue(f) ==
    IF f = "datetime_utc" THEN Get(payload, f, PyStr(<<>>)) ELSE Get(payload, f, PyNone)

\* datetime_utc is a datetime instance or a string that parses once a
\* trailing Z is stripped
DatetimeParseable ==
    LET x == RawValue("datetime_utc")
    IN  \/ x.t = "datetime"
        \/ x.t = "str" /\ FromIsoFormat(StripZ(x.s)).ok

\* the field converts to a finite float within [-bound, bound] (tenths)
CoordinateValid(f, bound) ==
    LET x == ToFloat(RawValue(f))
    IN  x.ok /\ x.k = "fin" /\ 0 - bound <= x.n /\ x.n <= bound

LatitudeValid == CoordinateValid("latitude", 900)

LongitudeValid == CoordinateValid("longitude", 1800)

Terminated == pc \in {"returned", "raised"}

AngleNames == <<"Ascendant", "Midheaven", "Descendant", "IC">>

BodyCodes ==
    << "SUN", "MOON", "MERCURY", "VENUS", "MARS", "JUPITER", "SATURN", "URANUS",
       "NEPTUNE", "PLUTO", "CHIRON", "MEAN_NODE", "MEAN_APOG" >>

ExpectedKeys == [j \in 1..13 |-> get_planet_name(BodyCodes[j])] \o AngleNames

\* the provider calls that compute something (the name lookups left out)
ComputeCalls == SelectSeq(calls, LAMBDA c : c.fn # "get_planet_name")

(***************************************************************************)
(* C1: with a parseable datetime_utc, latitude and longitude in range and  *)
(* a provider that does not fail, build_chart returns, and the placements  *)
(* it returns have exactly the 17 keys: the display names of the 13 bodies *)
(* in list order, then Ascendant, Midheaven, Descendant, IC; nothing is    *)
(* returned before the mapping is complete.                                *)
(***************************************************************************)
C1_SeventeenKeys ==
    /\ pc = "returned" =>
          /\ Len(returned.placements) = 17
          /\ Keys(returned.placements) = ExpectedKeys
    /\ pc # "returned" => returned = NoReturn
    /\ (DatetimeParseable /\ LatitudeValid /\ LongitudeValid /\ e = NoFailure) =>
          pc # "raised"
    /\ pc \in {"latitude", "longitude", "julday", "bodies", "houses"} =>
          ENABLED Next

C1_Witness ==
    /\ pc = "returned"
    /\ Len(returned.placements) = 17
    /\ returned.placements[11].key = "Chiron"
    /\ returned.placements[17].key = "IC"

(***************************************************************************)
(* C2: when the provider raises at the Julian Day conversion, at a body    *)
(* lookup or at the house computation, build_chart ends with a             *)
(* RuntimeError whose message names the step (for a body, its display      *)
(* name) and carries the provider's message, raised from it; nothing is    *)
(* returned.                                                               *)
(***************************************************************************)
StepName(f) ==
    IF f.fn = "calc_ut" THEN get_planet_name(f.code)
    ELSE IF f.fn = "julday" THEN "Julian Day" ELSE "houses/angles"

C2_ProviderFailureAborts ==
    e # NoFailure =>
        /\ pc = "raised"
        /\ raised.exc = "RuntimeError"
        /\ InParts(raised, StepName(e))
        /\ InParts(raised, e.msg)
        /\ raised.cause = e.msg
        /\ returned = NoReturn

C2_Witness ==
    /\ e.fn = "calc_ut" /\ e.code = "MARS"
    /\ pc = "raised"
    /\ InParts(raised, "Mars")
    /\ Len(placements) = 4

(***************************************************************************)
(* C3: a datetime_utc string gets past validation only if it ends in a     *)
(* literal Z; a string with another offset suffix, or one that does not    *)
(* parse into a date and a time of day once the Z is stripped, ends in a   *)
(* ValueError.                                                             *)
(***************************************************************************)
HasOffsetSuffix(s) ==
    /\ Len(s) >= 6
    /\ s[Len(s) - 5] \in {"+", "-"}
    /\ IsDigits(SubSeq(s, Len(s) - 4, Len(s) - 3))
    /\ s[Len(s) - 2] = ":"
    /\ IsDigits(SubSeq(s, Len(s) - 1, Len(s)))

DatetimeRejected ==
    pc = "raised" /\ raised.exc = "ValueError" /\ NamesField(raised, "datetime_utc")

C3_OnlyZSuffixAccepted ==
    LET x == RawValue("datetime_utc")
    IN  (x.t = "str" /\ pc # "parse_datetime") =>
            /\ HasOffsetSuffix(x.s) => DatetimeRejected
            /\ ~FromIsoFormat(StripZ(x.s)).ok => DatetimeRejected
            /\ ~DatetimeRejected => EndsWithZ(x.s)

(***************************************************************************)
(* C4: given a datetime_utc that parses, build_chart ends in a ValueError  *)
(* exactly when latitude or longitude is missing, does not convert to a    *)
(* finite float, or lies outside [-90, 90] resp. [-180, 180]; on success   *)
(* the result carries the float-coerced latitude and longitude.            *)
(***************************************************************************)
C4_CoordinateValidation ==
    (Terminated /\ DatetimeParseable) =>
        /\ (pc = "raised" /\ raised.exc = "ValueError")
              <=> ~(LatitudeValid /\ LongitudeValid)
        /\ pc = "returned" =>
              /\ returned.latitude = ToFloat(RawValue("latitude"))
              /\ returned.longitude = ToFloat(RawValue("longitude"))

C4_Witness ==
    /\ pc = "returned"
    /\ payload.latitude = PyFloat(900)
    /\ payload.longitude = PyFloat(-1800)
    /\ returned.latitude.n = 900
    /\ returned.longitude.n = -1800

(***************************************************************************)
(* C5: every ValueError of the validation names the offending field and    *)
(* has that field's rejected raw value formatted into its message.         *)
(***************************************************************************)
C5_MessageNamesFieldAndEchoes ==
    (pc = "raised" /\ raised.exc = "ValueError") =>
        \E f \in Fields : NamesField(raised, f) /\ Echoes(raised, RawValue(f))

(***************************************************************************)
(* C6: in every returned result, each of the 13 body placements has        *)
(* retrograde = (speed < 0) for its own speed.                             *)
(***************************************************************************)
C6_RetrogradeIsSpeedSign ==
    pc = "returned" =>
        \A j \in 1..13 :
            LET p == returned.placements[j].val
            IN  p.retrograde = (p.speed < 0)

C6_Witness ==
    /\ pc = "returned"
    /\ \E j \in 1..13 : /\ returned.placements[j].val.speed < 0
                        /\ returned.placements[j].val.retrograde
    /\ \E j \in 1..13 : /\ returned.placements[j].val.speed = 0
                        /\ ~returned.placements[j].val.retrograde
    /\ \E j \in 1..13 : /\ returned.placements[j].val.speed > 0
                        /\ ~returned.placements[j].val.retrograde

(***************************************************************************)
(* C7: in every returned result Ascendant and Midheaven carry ascmc[0]     *)
(* and ascmc[1] unchanged, Descendant = (Ascendant + 180) mod 360 and      *)
(* IC = (Midheaven + 180) mod 360.                                         *)
(***************************************************************************)
C7_Angles ==
    pc = "returned" =>
        LET P == returned.placements
        IN  /\ Lookup(P, "Ascendant").longitude = ascmc[1]
            /\ Lookup(P, "Midheaven").longitude = ascmc[2]
            /\ Lookup(P, "Descendant").longitude = (ascmc[1] + 1800) % 3600
            /\ Lookup(P, "IC").longitude = (ascmc[2] + 1800) % 3600

C7_Witness ==
    /\ pc = "returned"
    /\ ascmc = <<2705, 900>>
    /\ Lookup(returned.placements, "Descendant").longitude = 905
    /\ Lookup(returned.placements, "IC").longitude = 2700

(***************************************************************************)
(* C8: after a successful body lookup the placement of that body holds     *)
(* the four values taken from the provider's result.                       *)
(***************************************************************************)
JustRecorded ==
    /\ pc \in {"bodies", "houses"}
    /\ calls # <<>>
    /\ calls[Len(calls)].fn = "get_planet_name"

Recorded ==
    LET p == Lookup(placements, get_planet_name(calls[Len(calls)].code))
    IN  << p.longitude, p.latitude, p.distance_au, p.speed >>

FirstFour(v) == SubSeq(v, 1, 4)

LastFour(v) == SubSeq(v, Len(v) - 3, Len(v))

\* C8 as claimed: whatever the shape and the number of values, the last
\* four numeric values of the result are recorded.
C8_LastFourRecorded ==
    JustRecorded => Recorded = LastFour(result.values)

\* C8 amended: a direct tuple gives its last four values, a wrapped result
\* (values, status) gives the first four of values.
C8_FourValuesRecorded ==
    JustRecorded =>
        Recorded = IF result.wrapped THEN FirstFour(result.values)
                                     ELSE LastFour(result.values)

C8_Witness ==
    /\ JustRecorded
    /\ result.wrapped
    /\ Len(result.values) = 6
    /\ Recorded = FirstFour(result.values)
    /\ Recorded # LastFour(result.values)

(***************************************************************************)
(* C9: the computing provider calls of one build_chart call are a prefix   *)
(* of: julday, calc_ut(jd, body) for the 13 bodies in list order, each     *)
(* with the Julian Day julday returned, houses_ex; julday has been called  *)
(* once as soon as validation is passed, and the call that failed is the   *)
(* last one made.                                                          *)
(***************************************************************************)
C9_LinearPipeline ==
    LET C == ComputeCalls
    IN  /\ Len(C) <= 15
        /\ \A j \in 1..Len(C) :
              /\ j = 1 => C[j].fn = "julday"
              /\ (2 <= j /\ j <= 14) =>
                    /\ C[j].fn = "calc_ut"
                    /\ C[j].code = BodyCodes[j - 1]
                    /\ C[j].jd = jd
              /\ j = 15 => /\ C[j].fn = "houses_ex"
                           /\ C[j].jd = jd
        /\ (pc \in {"bodies", "houses", "returned"} \/ e # NoFailure) => Len(C) >= 1
        /\ pc = "houses" => Len(C) = 14
        /\ pc = "returned" => Len(C) = 15
        /\ e # NoFailure =>
              /\ C[Len(C)].fn = e.fn
              /\ e.fn = "calc_ut" => C[Len(C)].code = e.code
              /\ ~ENABLED Next

C9_Witness ==
    /\ e.fn = "calc_ut" /\ e.code = "PLUTO"
    /\ Len(ComputeCalls) = 11
    /\ ComputeCalls[11].code = "PLUTO"

(***************************************************************************)
(* C10: validation checks datetime_utc, then latitude, then longitude; a   *)
(* ValueError is for the first invalid field in that order and is raised   *)
(* before any provider call; provider calls and RuntimeErrors happen only  *)
(* for payloads that passed all three checks.                              *)
(***************************************************************************)
C10_ValidationFirst ==
    /\ (pc = "raised" /\ raised.exc = "ValueError") =>
          /\ calls = <<>>
          /\ e = NoFailure
          /\ IF ~DatetimeParseable THEN NamesField(raised, "datetime_utc")
             ELSE IF ~LatitudeValid THEN NamesField(raised, "latitude")
             ELSE ~LongitudeValid /\ NamesField(raised, "longitude")
    /\ (calls # <<>> \/ raised.exc = "RuntimeError") =>
          DatetimeParseable /\ LatitudeValid /\ LongitudeValid
    /\ pc = "latitude" => DatetimeParseable
    /\ pc = "longitude" => DatetimeParseable /\ LatitudeValid

C10_Witness ==
    /\ pc = "raised"
    /\ raised.exc = "ValueError"
    /\ NamesField(raised, "latitude")
    /\ DatetimeParseable /\ ~LatitudeValid /\ ~LongitudeValid
    /\ calls = <<>>

====
